---- MODULE Spec2Model ----
(***************************************************************************)
(* Model of the IBM Cloud Object Storage client (package cosclient,        *)
(* client/client.go): the IAM token refresh, the resolution of a bucket's  *)
(* endpoint and the bulk deletion of a bucket's contents.                  *)
(*                                                                         *)
(* Time is counted in minutes.  Strings that the code splits are sequences *)
(* of one-character strings; all other strings are opaque.                 *)
(***************************************************************************)
EXTENDS Integers, Sequences, FiniteSets, TLC

(***************************************************************************)
(* Bounds of the model.                                                    *)
(***************************************************************************)
\* number of goroutines that call Refresh on the one client
NumCallers == 2
\* the clock runs from StartTime to MaxTime
MaxTime == 3
\* latest expiry the identity service hands out
MaxExpiry == 9
\* longest location constraint
MaxLocLen == 4
\* most requests that the storage service fails while a bucket is emptied
MaxFaults == 2
\* most batches of a run in which any request can fail
MaxBatches == 3
\* requests beyond the MaxInFlight first ones in a run that fills every slot
ExtraBatches == 1
\* most requests that fail in such a run
MaxCapFaults == 1

(***************************************************************************)
(* Program constants.                                                      *)
(***************************************************************************)
\* var refreshTime = time.Minute * 5
refreshTime == 5
\* if start+1000 > size
BatchSize == 1000
\* for atomic.LoadInt32(&count) >= 10
MaxInFlight == 10
\* <MaxKeys>1000</MaxKeys>: the number of keys of a full page
PageSize == 1000

StartTime == 1
Callers == 1 .. NumCallers
\* the nil map, the nil pointer and the nil error
Nil == "nil"

VARIABLES
    \* COSClient.Token, COSClient.Expires, COSClient.RefreshMutex (0 = free)
    Token, Expires, RefreshMutex,
    \* time.Now()
    now,
    \* one record per goroutine inside Refresh
    refresh,
    \* number of token exchanges sent to the identity service, and the
    \* outcome of the first of them
    exchanges, firstExchange,
    \* the package variable Endpoints (the topology) and the field
    \* COSClient.Endpoints (bucket name -> URL)
    Endpoints, clientEndpoints,
    \* the last GetEndpointForBucket call and what it returned, and for each
    \* bucket name the URL its latest successful resolution returned
    lastCall, resolved,
    \* the services: the topology the discovery URL serves and the buckets
    \* of the account, in the order ListBuckets returns them
    serviceTopology, serviceBuckets,
    \* DeleteBucketContents: where the coordinator is, its parameter name,
    \* its locals list, start, end, size, count and resErr, and what it
    \* returned
    delPc, delName, list, start, end, size, count, resErr, delRet,
    \* the goroutines DeleteBucketContents has started, in starting order:
    \* objects, the argument; pc, "run" inside DeleteObjects, "store" before
    \* the assignment of line 563, "exit" before the deferred call, "done"
    \* after it; err, what DeleteObjects returned; made, the value line 563
    \* has built
    tasks,
    \* the first error stored into resErr, and whether a goroutine was started
    \* when resErr already held an error
    firstError, lateSubmit,
    \* ListObjects has returned a listing to DeleteBucketContents
    listed,
    \* ListObjects: its locals res and contToken, the continuation tokens its
    \* requests have carried and the ones the pages it has read have carried
    res, contToken, asked, given,
    \* DeleteBucketAll: what it returned, and the number of DELETE requests
    \* for the bucket that were sent
    allRet, bucketDeletes,
    \* the storage service: the keys of the bucket in listing order, and the
    \* number of requests it still fails
    serviceObjects, faults

pageVars == <<res, contToken, asked, given>>
allVars == <<allRet, bucketDeletes>>
deleteVars == <<delPc, delName, list, start, end, size, count, resErr, delRet, tasks,
                firstError, lateSubmit, listed, pageVars, allVars,
                serviceObjects, faults>>
endpointVars == <<Endpoints, clientEndpoints, lastCall, resolved,
                  serviceTopology, serviceBuckets>>
tokenVars == <<Token, Expires, RefreshMutex, now, refresh, exchanges, firstExchange>>

(***************************************************************************)
(* Token refresh: COSClient.Refresh                                        *)
(***************************************************************************)
\* what the identity service can answer
AccessTokens == {"", "tokA", "tokB"}
Expirations == {0} \cup (StartTime + refreshTime .. MaxExpiry)
\* httpClient.Do fails; ReadAll fails; json.Unmarshal fails; the body
\* carries an errorMessage; the body carries a token
ExchangeOutcomes == {"neterr", "readerr", "parseerr", "svcerr", "ok"}

IsFreshTwice(t, expires) == t + refreshTime + refreshTime < expires

\* time.Now().Add(refreshTime).Before(client.Expires)
IsFresh(t, expires) == t + refreshTime < expires

\* time.Unix(data.Expiration, 0)
TimeUnix(e) == e

ExchangeResultStoresAnyway(outcome, tok, exp, oldToken, oldExpires) ==
    [Token |-> tok, Expires |-> TimeUnix(exp),
     err |-> IF outcome = "ok" THEN Nil ELSE outcome]

\* lines 165-201: what one exchange leaves in the client and returns
ExchangeResult(outcome, tok, exp, oldToken, oldExpires) ==
    IF outcome = "ok"
    THEN [Token |-> tok, Expires |-> TimeUnix(exp), err |-> Nil]
    ELSE [Token |-> oldToken, Expires |-> oldExpires, err |-> outcome]

\* pc: where the goroutine is; stale0: the stored expiry was not later than
\* now + 5 minutes when it called; overlap: no call had returned when it
\* called; fresh: the stored expiry was later than now + 5 minutes at line
\* 142; tok0, exp0: Token and Expires as
\* line 142 saw them; issued: exchanges this call sent; err: what the call
\* returns; kept: Token and Expires were the same at the return as at line 142;
\* answer: how the exchange of this call ended; bearer: the token doHTTP has
\* put into the Authorization header
IdleCall == [pc |-> "idle", stale0 |-> FALSE, overlap |-> FALSE, fresh |-> FALSE,
             tok0 |-> "", exp0 |-> 0, issued |-> 0, err |-> Nil,
             kept |-> TRUE, answer |-> "none", bearer |-> "none"]

\* a goroutine calls client.Refresh()
RefreshCall(c) ==
    /\ refresh[c].pc = "idle"
    /\ refresh' = [refresh EXCEPT ![c].pc = "lock",
                                  ![c].stale0 = (Expires <= now + refreshTime),
                                  ![c].overlap = \A d \in Callers :
                                                   refresh[d].pc # "done"]
    /\ UNCHANGED <<Token, Expires, RefreshMutex, now, exchanges, firstExchange>>
    /\ UNCHANGED <<endpointVars, deleteVars>>

RefreshLockNoWait(c) ==
    /\ refresh[c].pc = "lock"
    /\ RefreshMutex' = c
    /\ refresh' = [refresh EXCEPT ![c].pc = "check"]
    /\ UNCHANGED <<Token, Expires, now, exchanges, firstExchange>>
    /\ UNCHANGED <<endpointVars, deleteVars>>

\* client.RefreshMutex.Lock()
RefreshLock(c) ==
    /\ refresh[c].pc = "lock"
    /\ RefreshMutex = 0
    /\ RefreshMutex' = c
    /\ refresh' = [refresh EXCEPT ![c].pc = "check"]
    /\ UNCHANGED <<Token, Expires, now, exchanges, firstExchange>>
    /\ UNCHANGED <<endpointVars, deleteVars>>

RefreshCheckUnlocks(c) ==
    /\ refresh[c].pc = "check"
    /\ IF IsFresh(now, Expires)
       THEN /\ refresh' = [refresh EXCEPT ![c].pc = "unlock",
                                          ![c].fresh = (Expires > now + refreshTime),
                                          ![c].tok0 = Token,
                                          ![c].exp0 = Expires,
                                          ![c].err = Nil]
            /\ UNCHANGED <<exchanges, RefreshMutex>>
       ELSE /\ refresh' = [refresh EXCEPT ![c].pc = "exchange",
                                          ![c].fresh = (Expires > now + refreshTime),
                                          ![c].tok0 = Token,
                                          ![c].exp0 = Expires,
                                          ![c].issued = 1]
            /\ exchanges' = exchanges + 1
            /\ RefreshMutex' = 0
    /\ UNCHANGED <<Token, Expires, now, firstExchange>>
    /\ UNCHANGED <<endpointVars, deleteVars>>

\* if time.Now().Add(refreshTime).Before(client.Expires) { return nil };
\* otherwise the request is built and sent
RefreshCheck(c) ==
    /\ refresh[c].pc = "check"
    /\ IF IsFresh(now, Expires)
       THEN /\ refresh' = [refresh EXCEPT ![c].pc = "unlock",
                                          ![c].fresh = (Expires > now + refreshTime),
                                          ![c].tok0 = Token,
                                          ![c].exp0 = Expires,
                                          ![c].err = Nil]
            /\ UNCHANGED exchanges
       ELSE /\ refresh' = [refresh EXCEPT ![c].pc = "exchange",
                                          ![c].fresh = (Expires > now + refreshTime),
                                          ![c].tok0 = Token,
                                          ![c].exp0 = Expires,
                                          ![c].issued = 1]
            /\ exchanges' = exchanges + 1
    /\ UNCHANGED <<Token, Expires, RefreshMutex, now, firstExchange>>
    /\ UNCHANGED <<endpointVars, deleteVars>>

\* httpClient.Do(req) returns and the response is decoded
RefreshExchange(c) ==
    /\ refresh[c].pc = "exchange"
    /\ \E outcome \in ExchangeOutcomes, tok \in AccessTokens, exp \in Expirations :
         LET r == ExchangeResult(outcome, tok, exp, Token, Expires) IN
           /\ Token' = r.Token
           /\ Expires' = r.Expires
           /\ refresh' = [refresh EXCEPT ![c].pc = "unlock", ![c].err = r.err,
                                          ![c].answer = outcome]
           /\ firstExchange' = IF firstExchange.seen
                               THEN firstExchange
                               ELSE [seen |-> TRUE, ok |-> r.err = Nil,
                                     Expires |-> r.Expires]
    /\ UNCHANGED <<RefreshMutex, now, exchanges>>
    /\ UNCHANGED <<endpointVars, deleteVars>>

RefreshUnlockOnSuccess(c) ==
    /\ refresh[c].pc = "unlock"
    /\ RefreshMutex' = IF refresh[c].err = Nil THEN 0 ELSE RefreshMutex
    /\ refresh' = [refresh EXCEPT ![c].pc = "done",
                                  ![c].kept = (Token = refresh[c].tok0
                                               /\ Expires = refresh[c].exp0),
                                  ![c].tok0 = "",
                                  ![c].exp0 = 0]
    /\ UNCHANGED <<Token, Expires, now, exchanges, firstExchange>>
    /\ UNCHANGED <<endpointVars, deleteVars>>

\* defer client.RefreshMutex.Unlock(), and Refresh returns
RefreshUnlock(c) ==
    /\ refresh[c].pc = "unlock"
    /\ RefreshMutex' = 0
    /\ refresh' = [refresh EXCEPT ![c].pc = "done",
                                  ![c].kept = (Token = refresh[c].tok0
                                               /\ Expires = refresh[c].exp0),
                                  ![c].tok0 = "",
                                  ![c].exp0 = 0]
    /\ UNCHANGED <<Token, Expires, now, exchanges, firstExchange>>
    /\ UNCHANGED <<endpointVars, deleteVars>>

\* doHTTP, lines 207-219, in the goroutine whose client.Refresh() has
\* returned: the error is dropped, the request is built and client.Token is
\* read into the Authorization header
HTTPAttach(c) ==
    /\ refresh[c].pc = "done"
    /\ refresh' = [refresh EXCEPT ![c].pc = "sent", ![c].bearer = Token]
    /\ UNCHANGED <<Token, Expires, RefreshMutex, now, exchanges, firstExchange>>
    /\ UNCHANGED <<endpointVars, deleteVars>>

\* a minute passes
Tick ==
    /\ now < MaxTime
    /\ now' = now + 1
    /\ UNCHANGED <<Token, Expires, RefreshMutex, refresh, exchanges, firstExchange>>
    /\ UNCHANGED <<endpointVars, deleteVars>>

(***************************************************************************)
(* Maps.  A Go map is a function; reading a key that is absent, or reading *)
(* a nil map, gives the zero value, which for a map of maps is a map with  *)
(* no keys.                                                                *)
(***************************************************************************)
EmptyMap == <<>>
MapGet(m, k) == IF k \in DOMAIN m THEN m[k] ELSE EmptyMap
MapPut(m, k, v) == [x \in DOMAIN m \cup {k} |-> IF x = k THEN v ELSE m[x]]

(***************************************************************************)
(* The topology: COSEndpoints.ServiceEndpoints,                            *)
(* type -> region -> scope -> name -> host                                 *)
(***************************************************************************)
RegA == <<"a">>
RegB == <<"b">>
RegAB == <<"a", "-", "b">>

\* cross-region a; regional a-b with two public hosts; single-site b
TopoFull ==
    [t \in {"cross-region", "regional", "single-site"} |->
       CASE t = "cross-region" ->
              [r \in {RegA} |-> [s \in {"public"} |-> [n \in {"geo"} |-> "h1"]]]
         [] t = "regional" ->
              [r \in {RegAB} |->
                 [s \in {"public", "private"} |->
                    IF s = "public"
                    THEN [n \in {"geo", "n2"} |-> IF n = "geo" THEN "h1" ELSE "h2"]
                    ELSE [n \in {"n2"} |-> "h3"]]]
         [] t = "single-site" ->
              [r \in {RegB} |-> [s \in {"public"} |-> [n \in {"n2"} |-> "h2"]]]]

\* no single-site and no regional entry; region b has no public scope and
\* region a has a public scope without hosts
TopoSparse ==
    [t \in {"cross-region"} |->
       [r \in {RegA, RegB} |->
          IF r = RegA
          THEN [s \in {"public"} |-> EmptyMap]
          ELSE [s \in {"private"} |-> [n \in {"n2"} |-> "h3"]]]]

Topologies == {TopoFull, TopoSparse}
\* what json.Unmarshal has stored when it reports a type mismatch
PartialTopologies == {EmptyMap, TopoSparse}

NoEndpoints == [set |-> FALSE, ServiceEndpoints |-> EmptyMap]

\* cli.Do fails; ReadAll fails; the body is not JSON; the body is JSON of
\* the wrong shape; the body is the JSON null; the body is a topology
FetchOutcomes == {"neterr", "readerr", "syntaxerr", "typeerr", "null", "ok"}

\* GetCOSEndpoints: the value of the package variable afterwards, the
\* error returned and the number of requests sent
GetCOSEndpoints(E, outcome, topo) ==
    IF E.set
    THEN [Endpoints |-> E, err |-> Nil, fetches |-> 0]
    ELSE CASE outcome \in {"neterr", "readerr", "syntaxerr"} ->
                [Endpoints |-> E, err |-> outcome, fetches |-> 1]
           [] outcome = "typeerr" ->
                [Endpoints |-> [set |-> TRUE, ServiceEndpoints |-> topo],
                 err |-> outcome, fetches |-> 1]
           [] outcome = "null" ->
                [Endpoints |-> E, err |-> Nil, fetches |-> 1]
           [] outcome = "ok" ->
                [Endpoints |-> [set |-> TRUE, ServiceEndpoints |-> topo],
                 err |-> Nil, fetches |-> 1]

(***************************************************************************)
(* doHTTP, called by one goroutine at a time: Refresh runs to its return   *)
(* (lock, check, exchange, unlock), its error is dropped, and the request  *)
(* is sent with whatever Token then holds.                                 *)
(***************************************************************************)
\* the answers of the identity service that the sequential operations see
SeqExchanges ==
    { [outcome |-> "ok", tok |-> "tokA", exp |-> MaxExpiry],
      [outcome |-> "ok", tok |-> "tokA", exp |-> StartTime + refreshTime],
      [outcome |-> "svcerr", tok |-> "", exp |-> 0] }

\* Refresh, lines 138-202, without interleaving
RefreshSeq(tok, expires, t, x) ==
    IF IsFresh(t, expires)
    THEN [Token |-> tok, Expires |-> expires, err |-> Nil, exchanges |-> 0]
    ELSE LET r == ExchangeResult(x.outcome, x.tok, x.exp, tok, expires) IN
           [Token |-> r.Token, Expires |-> r.Expires, err |-> r.err,
            exchanges |-> 1]

(***************************************************************************)
(* Endpoint resolution: COSClient.GetEndpointForBucket                     *)
(***************************************************************************)
Chars == {"a", "b", "-"}
RECURSIVE StringsUpTo(_)
StringsUpTo(n) ==
    IF n = 0 THEN {<<>>}
    ELSE LET shorter == StringsUpTo(n - 1) IN
           shorter \cup {Append(s, c) : s \in {x \in shorter : Len(x) = n - 1},
                                         c \in Chars}
\* the location constraints a bucket can carry
Locs == StringsUpTo(MaxLocLen)

BucketNames == {"bkt", "geo"}
OtherBucket == [Name |-> "other", LocationConstraint |-> <<"b", "-", "a">>]
\* the bodies ListBuckets can decode: no bucket, one bucket, or another
\* bucket followed by one bucket
Listings ==
    {<<>>}
    \cup {<<[Name |-> n, LocationConstraint |-> l]>> : n \in BucketNames, l \in Locs}
    \cup {<<OtherBucket, [Name |-> n, LocationConstraint |-> l]>> :
            n \in BucketNames, l \in {RegAB \o <<"-">>}}
\* doHTTP fails; xml.Unmarshal fails; a listing is decoded
ListOutcomes == {"httperr", "xmlerr", "ok"}

\* strings.Split(s, "-")
RECURSIVE Split(_)
Split(s) ==
    IF \A i \in 1 .. Len(s) : s[i] # "-"
    THEN <<s>>
    ELSE LET i == CHOOSE k \in 1 .. Len(s) :
                    s[k] = "-" /\ \A j \in 1 .. k - 1 : s[j] # "-"
         IN <<SubSeq(s, 1, i - 1)>> \o Split(SubSeq(s, i + 1, Len(s)))

ClassifyThreeOrMore(loc, serviceEndpoints) ==
    LET parts == Split(loc) IN
      IF Len(parts) = 2
      THEN [ok |-> TRUE,
            daType |-> IF \E siteName \in DOMAIN MapGet(serviceEndpoints, "single-site") :
                            siteName = parts[1]
                       THEN "single-site" ELSE "cross-region",
            reg |-> parts[1]]
      ELSE IF Len(parts) >= 3
      THEN [ok |-> TRUE, daType |-> "regional",
            reg |-> parts[1] \o <<"-">> \o parts[2]]
      ELSE [ok |-> FALSE, daType |-> "", reg |-> <<>>]

\* lines 429-448: deployment type and region of a location constraint
Classify(loc, serviceEndpoints) ==
    LET parts == Split(loc) IN
      IF Len(parts) = 2
      THEN [ok |-> TRUE,
            daType |-> IF \E siteName \in DOMAIN MapGet(serviceEndpoints, "single-site") :
                            siteName = parts[1]
                       THEN "single-site" ELSE "cross-region",
            reg |-> parts[1]]
      ELSE IF Len(parts) = 3
      THEN [ok |-> TRUE, daType |-> "regional",
            reg |-> parts[1] \o <<"-">> \o parts[2]]
      ELSE [ok |-> FALSE, daType |-> "", reg |-> <<>>]

\* lines 414-418: the first bucket of the listing with the name, 0 if none
FindBucket(buckets, name) ==
    IF \E i \in 1 .. Len(buckets) : buckets[i].Name = name
    THEN CHOOSE i \in 1 .. Len(buckets) :
           buckets[i].Name = name /\ \A j \in 1 .. i - 1 : buckets[j].Name # name
    ELSE 0

\* what the three services can answer to one call; an answer that the call
\* does not ask for (the topology is set, the token is fresh) is not drawn
FetchChoices ==
    IF Endpoints.set
    THEN {[outcome |-> "ok", topo |-> EmptyMap]}
    ELSE {[outcome |-> o, topo |-> EmptyMap] : o \in {"neterr", "readerr", "syntaxerr", "null"}}
         \cup {[outcome |-> "typeerr", topo |-> t] : t \in PartialTopologies}
         \cup {[outcome |-> "ok", topo |-> serviceTopology]}
ExchangeChoices(expires) ==
    IF IsFresh(now, expires)
    THEN {[outcome |-> "svcerr", tok |-> "", exp |-> 0]}
    ELSE SeqExchanges
ListChoices ==
    {[outcome |-> o, buckets |-> <<>>] : o \in {"httperr", "xmlerr"}}
    \cup {[outcome |-> "ok", buckets |-> serviceBuckets]}
\* the same while a bucket is being emptied: the storage service fails a
\* request only while faults > 0
ListChoicesNow ==
    {c \in ListChoices : c.outcome = "ok" \/ faults > 0}
RequestOutcomesNow ==
    {o \in {"ok", "httperr"} : o = "ok" \/ faults > 0}

NoClass == [ok |-> FALSE, daType |-> "", reg |-> <<>>]

ResolutionDropsCache(url, err, E, cache, d, fetches, lists, loc, cls) ==
    [url |-> url, err |-> err, Endpoints |-> E,
     clientEndpoints |-> IF err = Nil THEN cache ELSE EmptyMap,
     Token |-> d.Token, Expires |-> d.Expires, refreshErr |-> d.err,
     fetches |-> fetches, lists |-> lists, exchanges |-> d.exchanges,
     loc |-> loc, daType |-> cls.daType, reg |-> cls.reg]

\* what a call of GetEndpointForBucket returns and what it leaves in the
\* package variable, the bucket cache and the token; d is what the Refresh
\* call of doHTTP did (its error is dropped at line 207), fetches and lists
\* are the numbers of topology and ListBuckets requests sent
Resolution(url, err, E, cache, d, fetches, lists, loc, cls) ==
    [url |-> url, err |-> err, Endpoints |-> E, clientEndpoints |-> cache,
     Token |-> d.Token, Expires |-> d.Expires, refreshErr |-> d.err,
     fetches |-> fetches, lists |-> lists, exchanges |-> d.exchanges,
     loc |-> loc, daType |-> cls.daType, reg |-> cls.reg]

\* GetEndpointForBucket, lines 390-472: the results the call can have when
\* the services answer f (topology), x (token exchange) and l (bucket list)
GetEndpointForBucket(name, f, x, l) ==
    LET noRefresh == [Token |-> Token, Expires |-> Expires, err |-> Nil,
                      exchanges |-> 0]
    IN
    IF name \in DOMAIN clientEndpoints
    THEN \* lines 397-402: cache hit
         {Resolution(clientEndpoints[name], Nil, Endpoints, clientEndpoints,
                     noRefresh, 0, 0, <<>>, NoClass)}
    ELSE LET g == GetCOSEndpoints(Endpoints, f.outcome, f.topo)
             \* ListBuckets -> doHTTP -> Refresh
             d == RefreshSeq(Token, Expires, now, x)
             i == FindBucket(l.buckets, name)
             loc == l.buckets[i].LocationConstraint
             cls == Classify(loc, g.Endpoints.ServiceEndpoints)
             names == MapGet(MapGet(MapGet(g.Endpoints.ServiceEndpoints,
                                           cls.daType), cls.reg), "public")
         IN
           IF g.err # Nil
           THEN \* line 406
                {Resolution("", "GetCOSEndpoint", g.Endpoints, clientEndpoints,
                            noRefresh, g.fetches, 0, <<>>, NoClass)}
           ELSE IF l.outcome # "ok"
           THEN \* line 411
                {Resolution("", "ListBuckets", g.Endpoints, clientEndpoints,
                            d, g.fetches, 1, <<>>, NoClass)}
           ELSE IF i = 0
           THEN \* line 469
                {Resolution("", "nobucket", g.Endpoints, clientEndpoints,
                            d, g.fetches, 1, <<>>, NoClass)}
           ELSE IF ~cls.ok
           THEN \* line 447
                {Resolution("", "split", g.Endpoints, clientEndpoints,
                            d, g.fetches, 1, loc, cls)}
           ELSE IF ~g.Endpoints.set
           THEN \* lines 437, 452: endpoints is the nil pointer
                {Resolution("", "panic", g.Endpoints, clientEndpoints,
                            d, g.fetches, 1, loc, cls)}
           ELSE IF DOMAIN names = {}
           THEN \* line 465
                {Resolution("", "noendpoint", g.Endpoints, clientEndpoints,
                            d, g.fetches, 1, loc, cls)}
           ELSE \* lines 454-461: the first pair the range yields, whichever
                \* it is; the loop variable name hides the parameter name
                {Resolution("https://" \o names[endpointName], Nil, g.Endpoints,
                            MapPut(clientEndpoints, endpointName,
                                   "https://" \o names[endpointName]),
                            d, g.fetches, 1, loc, cls) :
                   endpointName \in DOMAIN names}

NoCall == [name |-> "", url |-> "", err |-> "none", refreshErr |-> Nil,
           fetches |-> 0, lists |-> 0, exchanges |-> 0,
           loc |-> <<>>, daType |-> "", reg |-> <<>>,
           cacheChanged |-> FALSE, resolvedBefore |-> FALSE, sameAsBefore |-> TRUE]

\* a goroutine calls client.GetEndpointForBucket(name) and the call returns
Resolve(name) ==
    /\ \E f \in FetchChoices, x \in ExchangeChoices(Expires), l \in ListChoices :
         \E r \in GetEndpointForBucket(name, f, x, l) :
           /\ Endpoints' = r.Endpoints
           /\ clientEndpoints' = r.clientEndpoints
           /\ Token' = r.Token
           /\ Expires' = r.Expires
           /\ lastCall' =
                [name |-> name, url |-> r.url, err |-> r.err,
                 refreshErr |-> r.refreshErr,
                 fetches |-> r.fetches, lists |-> r.lists,
                 exchanges |-> r.exchanges,
                 loc |-> r.loc, daType |-> r.daType, reg |-> r.reg,
                 cacheChanged |-> r.clientEndpoints # clientEndpoints,
                 resolvedBefore |-> name \in DOMAIN resolved,
                 sameAsBefore |-> (r.err = Nil /\ name \in DOMAIN resolved)
                                     => resolved[name] = r.url]
           /\ resolved' = IF r.err = Nil THEN MapPut(resolved, name, r.url)
                          ELSE resolved
    /\ UNCHANGED <<serviceTopology, serviceBuckets>>
    /\ UNCHANGED <<RefreshMutex, now, refresh, exchanges, firstExchange>>
    /\ UNCHANGED deleteVars

InitEndpoint ==
    /\ Endpoints = NoEndpoints
    /\ clientEndpoints = EmptyMap
    /\ lastCall = NoCall
    /\ resolved = EmptyMap

\* the services of a run that resolves no bucket
InitNoService ==
    /\ serviceTopology = TopoFull
    /\ serviceBuckets = <<>>

InitService ==
    /\ serviceTopology \in Topologies
    /\ serviceBuckets \in Listings

(***************************************************************************)
(* Bulk deletion: COSClient.DeleteBucketContents                           *)
(***************************************************************************)
\* The keys of a bucket are numbered in listing order, and a sequence of
\* consecutive keys lo, lo + 1, ..., hi is written [lo |-> lo, hi |-> hi]
\* (no key when hi < lo).  The keys of a bucket of n objects, and len():
Keys(n) == [lo |-> 1, hi |-> n]
KeysLen(k) == IF k.hi < k.lo THEN 0 ELSE k.hi - k.lo + 1
NoKeys == Keys(0)
\* the bucket sizes of the runs: nothing, one key, a full batch, one key
\* more, and MaxBatches batches of which the last holds 500 keys
ListSizes ==
    {0, 1, BatchSize, BatchSize + 1, 2 * BatchSize + 500,
     (MaxBatches - 1) * BatchSize + 500}

\* error values: kind "nil" is the nil error; kind "list" is the error of
\* line 530; kind "batch" is the value built by the fmt.Errorf call of line
\* 563 in goroutine batch, whose text is depth times the prefix "Error
\* deleting bucket contents: " followed by cause, the text of the error at
\* the bottom of the chain ("<nil>" stands for "%!s(<nil>)", what %s makes
\* of a nil error)
NoError == [kind |-> "nil", batch |-> 0, depth |-> 0, cause |-> "<nil>"]
NotReturned == [kind |-> "none", batch |-> 0, depth |-> 0, cause |-> ""]

ListErrorSwallowed(err) == NoError

\* line 530: fmt.Errorf("Error getting bucket contents: %s", err), where err
\* is what ListObjects returned
ListError(err) == [kind |-> "list", batch |-> 0, depth |-> 0, cause |-> err]

ErrorfKeepsOld(old, err, i) == old

\* fmt.Errorf("Error deleting bucket contents: %s", resErr) in goroutine i,
\* where resErr was read as old and err is what DeleteObjects returned: the
\* argument of %s is resErr, and err is not used
Errorf(old, err, i) ==
    [kind |-> "batch", batch |-> i, depth |-> old.depth + 1, cause |-> old.cause]

NextEndShort(s, sz) == IF s + BatchSize > sz THEN sz ELSE s + BatchSize - 1

\* lines 541-545
NextEnd(s, sz) == IF s + BatchSize > sz THEN sz ELSE s + BatchSize

\* lines 547-550: the keys of list[s:e]
SliceKeys(l, s, e) == [lo |-> l.lo + s, hi |-> l.lo + e - 1]

CanStartOneMore(n) == ~(n > MaxInFlight)

\* line 553: the throttle loop is left
CanStart(n) == ~(n >= MaxInFlight)

LoopContinuesUnlessFailed(e, sz, err) == e # sz /\ err = NoError

\* line 540: for end != size
LoopContinues(e, sz, err) == e # sz

EmptyBucketResultError == ListError("empty")

\* lines 533-535: if len(list) == 0 { return nil }
EmptyBucketResult == NoError

StillWaitingForTwo(n) == n > 1

\* line 568: for atomic.LoadInt32(&count) > 0
StillWaiting(n) == n > 0

\* the bucket cache, the package variable and the token after a call
ApplyClient(cache, E, tok, expires) ==
    /\ clientEndpoints' = cache
    /\ Endpoints' = E
    /\ Token' = tok
    /\ Expires' = expires

\* the storage service has failed n more requests
Failed(n) == faults' = faults - n

\* DeleteBucketContents is called; ListObjects resolves the endpoint of the
\* bucket (line 600)
DelResolve ==
    /\ delPc = "idle"
    /\ \E f \in FetchChoices, x \in ExchangeChoices(Expires), l \in ListChoicesNow :
         \E r \in GetEndpointForBucket(delName, f, x, l) :
           /\ ApplyClient(r.clientEndpoints, r.Endpoints, r.Token, r.Expires)
           /\ Failed(IF r.lists = 1 /\ l.outcome # "ok" THEN 1 ELSE 0)
           /\ IF r.err # Nil
              THEN delPc' = "done" /\ delRet' = ListError("endpoint")
              ELSE delPc' = "pages" /\ UNCHANGED delRet
    /\ UNCHANGED <<delName, list, start, end, size, count, resErr, tasks,
                   firstError, lateSubmit, listed, pageVars, allVars,
                   serviceObjects>>
    /\ UNCHANGED <<RefreshMutex, now, refresh, exchanges, firstExchange,
                   lastCall, resolved, serviceTopology, serviceBuckets>>

\* the empty continuation token
NoToken == 0

\* the storage service answers a listing request that carries token t: the
\* next PageSize keys, and as NextContinuationToken the number of the key
\* after them when there is one
ServicePage(objs, t) ==
    LET first == IF t = NoToken THEN objs.lo ELSE t
        last == IF first + PageSize - 1 < objs.hi THEN first + PageSize - 1
                ELSE objs.hi
    IN [Contents |-> [lo |-> first, hi |-> last],
        NextContinuationToken |-> IF last < objs.hi THEN last + 1 ELSE NoToken]

AppendKeysReplaces(r, page) == page

\* lines 623-630: res = append(res, newObj) for every object of the page
AppendKeys(r, page) ==
    IF KeysLen(r) = 0 THEN page
    ELSE IF KeysLen(page) = 0 THEN r
    ELSE [lo |-> r.lo, hi |-> page.hi]

\* one round of the loop of ListObjects (lines 605-636): the request is sent
\* through doHTTP with the continuation token, the page is decoded and
\* appended, and the loop is left when the page carries no token; then
\* ListObjects returns (line 638) and DeleteBucketContents looks at the list
\* (lines 529-539)
DelPage ==
    /\ delPc = "pages"
    /\ \E x \in ExchangeChoices(Expires), o \in RequestOutcomesNow \cup
                    {e \in {"xmlerr"} : faults > 0} :
         LET d == RefreshSeq(Token, Expires, now, x)
             page == ServicePage(serviceObjects, contToken)
             all == AppendKeys(res, page.Contents)
         IN
           /\ ApplyClient(clientEndpoints, Endpoints, d.Token, d.Expires)
           /\ Failed(IF o = "ok" THEN 0 ELSE 1)
           /\ asked' = Append(asked, contToken)
           /\ IF o # "ok"
              THEN /\ delPc' = "done"
                   /\ delRet' = ListError(o)
                   /\ UNCHANGED <<list, start, end, size, listed,
                                  res, contToken, given>>
              ELSE /\ res' = all
                   /\ contToken' = page.NextContinuationToken
                   /\ given' = Append(given, page.NextContinuationToken)
                   /\ IF page.NextContinuationToken # NoToken
                      THEN UNCHANGED <<delPc, delRet, list, start, end, size, listed>>
                      ELSE IF KeysLen(all) = 0
                      THEN /\ delPc' = "done"
                           /\ delRet' = EmptyBucketResult
                           /\ list' = all
                           /\ listed' = TRUE
                           /\ UNCHANGED <<start, end, size>>
                      ELSE /\ delPc' = IF LoopContinues(0, KeysLen(all), resErr)
                                       THEN "loop" ELSE "wait"
                           /\ list' = all
                           /\ listed' = TRUE
                           /\ start' = 0
                           /\ size' = KeysLen(all)
                           /\ end' = 0
                           /\ UNCHANGED delRet
    /\ UNCHANGED <<delName, count, resErr, tasks, firstError, lateSubmit,
                   allVars, serviceObjects>>
    /\ UNCHANGED <<RefreshMutex, now, refresh, exchanges, firstExchange,
                   lastCall, resolved, serviceTopology, serviceBuckets>>

\* one round of the loop of line 540: the next slice is cut, the throttle
\* loop is left, count is raised and the goroutine is started
DelSubmit ==
    /\ delPc = "loop"
    /\ CanStart(count)
    /\ LET e == NextEnd(start, size) IN
         /\ end' = e
         /\ start' = e
         /\ tasks' = Append(tasks, [objects |-> SliceKeys(list, start, e),
                                    pc |-> "run", err |-> Nil, made |-> NoError])
         /\ lateSubmit' = (lateSubmit \/ resErr # NoError)
         /\ delPc' = IF LoopContinues(e, size, resErr) THEN "loop" ELSE "wait"
    /\ count' = count + 1
    /\ UNCHANGED <<delName, list, size, resErr, delRet, firstError, listed,
                   pageVars, allVars, serviceObjects, faults>>
    /\ UNCHANGED <<tokenVars, endpointVars>>

\* lines 568-572: count is seen to be 0 and resErr is returned
DelReturn ==
    /\ delPc = "wait"
    /\ ~StillWaiting(count)
    /\ delPc' = "done"
    /\ delRet' = resErr
    /\ UNCHANGED <<delName, list, start, end, size, count, resErr, tasks,
                   firstError, lateSubmit, listed, pageVars, allVars,
                   serviceObjects, faults>>
    /\ UNCHANGED <<tokenVars, endpointVars>>

\* goroutine i: client.DeleteObjects(name, objects), lines 675-701, returns:
\* the endpoint was resolved and the delete request sent through doHTTP.
\* When it returns nil the goroutine ends, and its deferred
\* atomic.AddInt32(&count, -1) of line 559 is part of the step.  When it
\* returns an error, line 563 reads resErr and builds the error value.
TaskDeleteObjects(i) ==
    /\ tasks[i].pc = "run"
    /\ \E f \in FetchChoices, x \in ExchangeChoices(Expires), l \in ListChoicesNow :
         \E r \in GetEndpointForBucket(delName, f, x, l) :
           LET listFailed == IF r.lists = 1 /\ l.outcome # "ok" THEN 1 ELSE 0
               failed(err) == [tasks EXCEPT ![i].pc = "store", ![i].err = err,
                                            ![i].made = Errorf(resErr, err, i)]
           IN
           IF r.err # Nil
           THEN /\ ApplyClient(r.clientEndpoints, r.Endpoints, r.Token, r.Expires)
                /\ Failed(listFailed)
                /\ tasks' = failed("endpoint")
                /\ UNCHANGED count
           ELSE \E x2 \in ExchangeChoices(r.Expires), o \in RequestOutcomesNow :
                  LET d == RefreshSeq(r.Token, r.Expires, now, x2) IN
                    /\ ApplyClient(r.clientEndpoints, r.Endpoints, d.Token, d.Expires)
                    /\ Failed(IF o = "ok" THEN 0 ELSE 1)
                    /\ IF o = "ok"
                       THEN /\ tasks' = [tasks EXCEPT ![i].pc = "done"]
                            /\ count' = count - 1
                       ELSE /\ tasks' = failed("post")
                            /\ UNCHANGED count
    /\ UNCHANGED <<delPc, delName, list, start, end, size, resErr, delRet,
                   firstError, lateSubmit, listed, pageVars, allVars,
                   serviceObjects>>
    /\ UNCHANGED <<RefreshMutex, now, refresh, exchanges, firstExchange,
                   lastCall, resolved, serviceTopology, serviceBuckets>>

\* line 563, goroutine i: the value is stored through pErr
TaskStore(i) ==
    /\ tasks[i].pc = "store"
    /\ resErr' = tasks[i].made
    /\ firstError' = IF firstError = NoError THEN tasks[i].made ELSE firstError
    /\ tasks' = [tasks EXCEPT ![i].pc = "exit"]
    /\ UNCHANGED <<delPc, delName, list, start, end, size, count, delRet,
                   lateSubmit, listed, pageVars, allVars, serviceObjects, faults>>
    /\ UNCHANGED <<tokenVars, endpointVars>>

TaskExitKeepsSlot(i) ==
    /\ tasks[i].pc = "exit"
    /\ tasks' = [tasks EXCEPT ![i].pc = "done"]
    /\ UNCHANGED <<delPc, delName, list, start, end, size, resErr, delRet,
                   firstError, lateSubmit, listed, pageVars, allVars,
                   serviceObjects, faults, count>>
    /\ UNCHANGED <<tokenVars, endpointVars>>

\* line 559, goroutine i, after a failure: defer atomic.AddInt32(&count, -1)
TaskExit(i) ==
    /\ tasks[i].pc = "exit"
    /\ count' = count - 1
    /\ tasks' = [tasks EXCEPT ![i].pc = "done"]
    /\ UNCHANGED <<delPc, delName, list, start, end, size, resErr, delRet,
                   firstError, lateSubmit, listed, pageVars, allVars,
                   serviceObjects, faults>>
    /\ UNCHANGED <<tokenVars, endpointVars>>

ContentsFailedNever(e) == FALSE

\* line 577: if err != nil
ContentsFailed(e) == e # NoError

\* what DeleteBucket returns: the error of GetEndpointForBucket (line 504)
\* or the error of doHTTP (line 510)
BucketError(err) == [kind |-> "bucket", batch |-> 0, depth |-> 0, cause |-> err]

\* DeleteBucketAll, lines 576-581, after DeleteBucketContents has returned:
\* its error is returned, or DeleteBucket is called, which resolves the
\* endpoint and sends the DELETE request through doHTTP
DeleteBucketAll ==
    /\ delPc = "done"
    /\ allRet = NotReturned
    /\ IF ContentsFailed(delRet)
       THEN /\ allRet' = delRet
            /\ UNCHANGED <<bucketDeletes, faults, clientEndpoints, Endpoints,
                           Token, Expires>>
       ELSE \E f \in FetchChoices, x \in ExchangeChoices(Expires), l \in ListChoicesNow :
              \E r \in GetEndpointForBucket(delName, f, x, l) :
                LET listFailed == IF r.lists = 1 /\ l.outcome # "ok" THEN 1 ELSE 0 IN
                IF r.err # Nil
                THEN /\ ApplyClient(r.clientEndpoints, r.Endpoints, r.Token, r.Expires)
                     /\ Failed(listFailed)
                     /\ allRet' = BucketError("endpoint")
                     /\ UNCHANGED bucketDeletes
                ELSE \E x2 \in ExchangeChoices(r.Expires), o \in RequestOutcomesNow :
                       LET d == RefreshSeq(r.Token, r.Expires, now, x2) IN
                         /\ ApplyClient(r.clientEndpoints, r.Endpoints,
                                        d.Token, d.Expires)
                         /\ Failed(IF o = "ok" THEN 0 ELSE 1)
                         /\ bucketDeletes' = bucketDeletes + 1
                         /\ allRet' = IF o = "ok" THEN NoError ELSE BucketError(o)
    /\ UNCHANGED <<delPc, delName, list, start, end, size, count, resErr, delRet,
                   tasks, firstError, lateSubmit, listed, pageVars, serviceObjects>>
    /\ UNCHANGED <<RefreshMutex, now, refresh, exchanges, firstExchange,
                   lastCall, resolved, serviceTopology, serviceBuckets>>

\* before DeleteBucketContents(name) is called
InitDeleteOf(name) ==
    /\ delPc = "idle"
    /\ delName = name
    /\ list = NoKeys
    /\ start = 0
    /\ end = 0
    /\ size = 0
    /\ count = 0
    /\ resErr = NoError
    /\ delRet = NotReturned
    /\ tasks = <<>>
    /\ firstError = NoError
    /\ lateSubmit = FALSE
    /\ listed = FALSE
    /\ res = NoKeys
    /\ contToken = NoToken
    /\ asked = <<>>
    /\ given = <<>>
    /\ allRet = NotReturned
    /\ bucketDeletes = 0

\* no DeleteBucketContents call is made
InitDelete == InitDeleteOf("")

\* the services of a run that empties no bucket
InitNoObjects ==
    /\ serviceObjects = NoKeys
    /\ faults = 0

\* NewClient: Token "", Expires time.Time{}
InitToken ==
    /\ Token = ""
    /\ Expires = 0
    /\ RefreshMutex = 0
    /\ now = StartTime
    /\ refresh = [c \in Callers |-> IdleCall]
    /\ exchanges = 0
    /\ firstExchange = [seen |-> FALSE, ok |-> FALSE, Expires |-> 0]

vars == <<tokenVars, endpointVars, deleteVars>>

InitRefresh ==
    InitToken /\ InitEndpoint /\ InitNoService /\ InitDelete /\ InitNoObjects

NextRefresh ==
    \/ \E c \in Callers : RefreshCall(c)
    \/ \E c \in Callers : RefreshLock(c)
    \/ \E c \in Callers : RefreshCheck(c)
    \/ \E c \in Callers : RefreshExchange(c)
    \/ \E c \in Callers : RefreshUnlock(c)
    \/ Tick

SpecRefresh == InitRefresh /\ [][NextRefresh]_vars

\* the same when every goroutine inside Refresh is scheduled again and
\* again and the identity service answers, or the connection fails, after
\* a finite time
RefreshFairness ==
    \A c \in Callers :
      /\ WF_vars(RefreshLock(c))
      /\ WF_vars(RefreshCheck(c))
      /\ WF_vars(RefreshExchange(c))
      /\ WF_vars(RefreshUnlock(c))

SpecRefreshLive == InitRefresh /\ [][NextRefresh]_vars /\ RefreshFairness

\* the goroutines call doHTTP, which calls Refresh
NextHTTP ==
    \/ \E c \in Callers : RefreshCall(c)
    \/ \E c \in Callers : RefreshLock(c)
    \/ \E c \in Callers : RefreshCheck(c)
    \/ \E c \in Callers : RefreshExchange(c)
    \/ \E c \in Callers : RefreshUnlock(c)
    \/ \E c \in Callers : HTTPAttach(c)
    \/ Tick

SpecHTTP == InitRefresh /\ [][NextHTTP]_vars

InitResolve ==
    InitToken /\ InitEndpoint /\ InitService /\ InitDelete /\ InitNoObjects

NextResolve == \E name \in BucketNames : Resolve(name)

SpecResolve == InitResolve /\ [][NextResolve]_vars

\* the account holds both buckets, in cross-region a
DelBuckets ==
    <<[Name |-> "bkt", LocationConstraint |-> <<"a", "-", "a">>],
      [Name |-> "geo", LocationConstraint |-> <<"a", "-", "a">>]>>

NextDelete ==
    \/ DelResolve
    \/ DelPage
    \/ DelSubmit
    \/ DelReturn
    \/ DeleteBucketAll
    \/ \E i \in 1 .. Len(tasks) : TaskDeleteObjects(i)
    \/ \E i \in 1 .. Len(tasks) : TaskStore(i)
    \/ \E i \in 1 .. Len(tasks) : TaskExit(i)

\* one DeleteBucketContents call on a new client
InitDeleteRun ==
    /\ InitToken /\ InitEndpoint /\ InitDeleteOf("bkt")
    /\ serviceTopology = TopoFull
    /\ serviceBuckets = DelBuckets
    /\ serviceObjects \in {Keys(n) : n \in ListSizes}
    /\ faults = MaxFaults

SpecDelete == InitDeleteRun /\ [][NextDelete]_vars

\* one DeleteBucketContents call on a bucket of n keys, of which the
\* storage service fails at most f requests, by a client that has fetched
\* the topology, holds a fresh token and has the bucket's name in its cache
InitWarmRun(n, f) ==
    /\ Token = "tokA"
    /\ Expires = MaxExpiry
    /\ RefreshMutex = 0
    /\ now = StartTime
    /\ refresh = [c \in Callers |-> IdleCall]
    /\ exchanges = 0
    /\ firstExchange = [seen |-> FALSE, ok |-> FALSE, Expires |-> 0]
    /\ Endpoints = [set |-> TRUE, ServiceEndpoints |-> TopoFull]
    /\ clientEndpoints = [b \in {"geo"} |-> "https://h1"]
    /\ lastCall = NoCall
    /\ resolved = EmptyMap
    /\ InitDeleteOf("geo")
    /\ serviceTopology = TopoFull
    /\ serviceBuckets = DelBuckets
    /\ serviceObjects = Keys(n)
    /\ faults = f

\* such a call on a bucket of more than MaxInFlight batches
InitCapRun ==
    InitWarmRun((MaxInFlight + ExtraBatches - 1) * BatchSize + 1, MaxCapFaults)

SpecCap == InitCapRun /\ [][NextDelete]_vars

\* such a call on a bucket of one batch more than there are slots, in
\* which no request or one request fails
InitLiveRun ==
    \E f \in {0, 1} : InitWarmRun(MaxInFlight * BatchSize + 1, f)

\* that run when the coordinator and every goroutine are scheduled again
\* and again and every request is answered, or fails, after a finite time
SpecCapLive == InitLiveRun /\ [][NextDelete]_vars /\ WF_vars(NextDelete)

(***************************************************************************)
(* Properties of the token refresh                                         *)
(***************************************************************************)
AllReturned == \A c \in Callers : refresh[c].pc = "done"

\* C1: a Refresh call that finds the stored expiry later than now + 5
\* minutes sends no token exchange, returns nil and leaves Token and Expires
\* as they were.
C1_FreshTokenNoExchange ==
    \A c \in Callers :
      (refresh[c].pc \in {"exchange", "unlock", "done"} /\ refresh[c].fresh)
        => /\ refresh[c].pc # "exchange"
           /\ refresh[c].issued = 0
           /\ refresh[c].err = Nil
           /\ refresh[c].kept

C1_Witness ==
    \E c \in Callers :
      refresh[c].pc = "done" /\ refresh[c].fresh /\ Token # "" /\ exchanges = 1

\* every caller called while the token was stale and before any call returned
AllCalledStale ==
    \A c \in Callers : refresh[c].stale0 /\ refresh[c].overlap

\* C2 (as stated): when N callers invoke Refresh concurrently on a stale
\* token, exactly one token exchange is sent in total.
C2_ExactlyOneExchange ==
    (AllReturned /\ AllCalledStale) => exchanges = 1

\* C2 (amended): when N callers invoke Refresh concurrently on a stale
\* token, between 1 and N exchanges are sent, and exactly one when the first
\* exchange succeeds with an expiry that is still later than now + 5 minutes.
C2_OneExchangeIfFirstSucceeds ==
    (AllReturned /\ AllCalledStale)
      => /\ exchanges >= 1
         /\ exchanges <= NumCallers
         /\ (firstExchange.ok /\ firstExchange.Expires > now + refreshTime)
              => exchanges = 1

C2_Witness ==
    /\ AllReturned
    /\ AllCalledStale
    /\ firstExchange.ok
    /\ firstExchange.Expires > now + refreshTime
    /\ exchanges = 1
    /\ \E c \in Callers : refresh[c].issued = 0

FailedAnswers == ExchangeOutcomes \ {"ok"}

\* C13: when the token exchange of a Refresh call fails (network error,
\* unreadable body, malformed body or an errorMessage in the body), the call
\* returns a non-nil error and Token and Expires are what they were when the
\* call checked them.
C13_FailedExchangeKeepsToken ==
    \A c \in Callers :
      (refresh[c].pc \in {"unlock", "done"} /\ refresh[c].answer \in FailedAnswers)
        => /\ refresh[c].err # Nil
           /\ refresh[c].pc = "unlock"
                => (Token = refresh[c].tok0 /\ Expires = refresh[c].exp0)
           /\ refresh[c].pc = "done" => refresh[c].kept

C13_Witness ==
    \E c \in Callers :
      /\ refresh[c].pc = "done"
      /\ refresh[c].answer = "svcerr"
      /\ refresh[c].err # Nil
      /\ Token = "tokB"
      /\ Expires = StartTime + refreshTime

\* C15: in the step in which a Refresh call reaches its return with a nil
\* error, Token is not empty and Expires is later than now + 5 minutes.
C15_ReturnedTokenIsFresh ==
    [][\A c \in Callers :
         (refresh[c].pc \in {"check", "exchange"} /\ refresh'[c].pc = "unlock"
          /\ refresh'[c].err = Nil)
           => (Token' # "" /\ Expires' > now' + refreshTime)]_vars

\* C16: no goroutine writes Token in Refresh (lines 198-199) in a state in
\* which another goroutine has returned from Refresh and has its read of
\* Token of line 219, which takes no lock, as its next step.
C16_TokenAccessSerialized ==
    [][\A b \in Callers :
         (refresh[b].pc = "exchange" /\ refresh'[b].answer = "ok")
           => \A a \in Callers \ {b} : refresh[a].pc # "done"]_vars

\* C21: a goroutine that has returned from Refresh does not hold the lock,
\* whichever way it returned; the lock is free whenever no goroutine is
\* between Lock and Unlock; and every goroutine that waits at Lock gets
\* the lock and returns.
C21_LockIsReleased ==
    /\ [](\A c \in Callers : refresh[c].pc \in {"idle", "lock", "done"}
                                => RefreshMutex # c)
    /\ []((\A c \in Callers : refresh[c].pc \in {"idle", "lock", "done"})
            => RefreshMutex = 0)
    /\ \A d \in Callers : (refresh[d].pc = "lock") ~> (refresh[d].pc = "done")

C21_Witness ==
    \E c, d \in Callers :
      /\ refresh[c].pc = "done"
      /\ refresh[c].answer \in {"neterr", "readerr", "parseerr", "svcerr"}
      /\ refresh[d].pc = "done"
      /\ refresh[d].overlap
      /\ refresh[d].issued = 1
      /\ refresh[d].err = Nil

\* the goroutines between the Lock and the Unlock of Refresh
InRefresh == {c \in Callers : refresh[c].pc \in {"check", "exchange", "unlock"}}

\* C20: at most one token exchange is in flight; while it is in flight the
\* goroutine that sent it holds the lock and every other goroutine that has
\* called Refresh waits at Lock; a goroutine leaves Lock only when the lock
\* is free, and its next step is the check of line 142.
C20_OneExchangeInFlight ==
    /\ [](/\ Cardinality({c \in Callers : refresh[c].pc = "exchange"}) <= 1
          /\ \A c \in InRefresh : RefreshMutex = c)
    /\ [][\A d \in Callers :
           (refresh[d].pc = "lock" /\ refresh'[d].pc # "lock")
             => /\ \A c \in Callers : refresh[c].pc # "exchange"
                /\ refresh'[d].pc = "check"]_vars

C20_Witness ==
    \E c, d \in Callers :
      /\ refresh[c].pc = "exchange"
      /\ refresh[d].pc = "lock"
      /\ refresh[d].stale0

(***************************************************************************)
(* Properties of the endpoint resolution                                   *)
(***************************************************************************)
\* C3: once GetEndpointForBucket(b) has succeeded, a later
\* GetEndpointForBucket(b) sends no request: no topology fetch, no
\* ListBuckets request, no token exchange.
C3_SecondCallIsCacheHit ==
    lastCall.resolvedBefore
      => lastCall.fetches = 0 /\ lastCall.lists = 0 /\ lastCall.exchanges = 0

\* C4: two successful calls of GetEndpointForBucket(b) return the same URL.
C4_SameUrlTwice ==
    (lastCall.err = Nil /\ lastCall.resolvedBefore) => lastCall.sameAsBefore

\* the positions of the dashes of the last location constraint
Dashes == {i \in 1 .. Len(lastCall.loc) : lastCall.loc[i] = "-"}
FirstDash == CHOOSE i \in Dashes : \A j \in Dashes : i <= j
LastDash == CHOOSE i \in Dashes : \A j \in Dashes : j <= i
\* the call found the bucket in the listing and had a topology to look into
Classified ==
    /\ lastCall.lists = 1
    /\ lastCall.err \notin {"none", "ListBuckets", "nobucket", "panic"}

\* C5: a location constraint of two dash-separated segments is cross-region
\* with the first segment as region, or single-site when the first segment
\* is a single-site region of the topology; one of three segments is
\* regional with region segment1-segment2; any other count is a parse error
\* that resolves nothing.
C5_Classification ==
    Classified =>
      CASE Cardinality(Dashes) = 1 ->
             /\ lastCall.err # "split"
             /\ lastCall.reg = SubSeq(lastCall.loc, 1, FirstDash - 1)
             /\ lastCall.daType =
                  IF "single-site" \in DOMAIN Endpoints.ServiceEndpoints
                     /\ lastCall.reg \in DOMAIN Endpoints.ServiceEndpoints["single-site"]
                  THEN "single-site" ELSE "cross-region"
        [] Cardinality(Dashes) = 2 ->
             /\ lastCall.err # "split"
             /\ lastCall.daType = "regional"
             /\ lastCall.reg = SubSeq(lastCall.loc, 1, LastDash - 1)
        [] OTHER ->
             /\ lastCall.err = "split"
             /\ lastCall.url = ""
             /\ ~lastCall.cacheChanged

C5_Witness ==
    /\ Classified
    /\ lastCall.err = Nil
    /\ lastCall.daType = "single-site"
    /\ lastCall.url = "https://h2"

\* C14: when the Refresh call that doHTTP makes for a storage request
\* fails, the operation returns an error and the storage request is not
\* sent.
C14_RefreshFailureIsReported ==
    lastCall.refreshErr # Nil => (lastCall.err # Nil /\ lastCall.lists = 0)

\* the ways GetEndpointForBucket fails: lines 406, 411, 469, 447 and 465
FailureKinds == {"GetCOSEndpoint", "ListBuckets", "nobucket", "split", "noendpoint"}
\* the public hosts the topology has for the type and region of the last call
LastNames ==
    MapGet(MapGet(MapGet(Endpoints.ServiceEndpoints, lastCall.daType),
                  lastCall.reg), "public")

\* C18: a GetEndpointForBucket call that fails because the topology fetch
\* fails, the bucket listing fails, the bucket is not in the listing, the
\* location constraint does not split into two or three segments, or the
\* topology has no public host for the type and region, returns "" and an
\* error and leaves the bucket cache as it was; a bucket that is not in the
\* listing and a type and region without public host do make it fail.
C18_FailureKeepsCache ==
    /\ lastCall.err \in FailureKinds
         => (lastCall.url = "" /\ ~lastCall.cacheChanged)
    /\ lastCall.err = "GetCOSEndpoint" => lastCall.lists = 0
    /\ (lastCall.lists = 1 /\ lastCall.err # "ListBuckets"
        /\ FindBucket(serviceBuckets, lastCall.name) = 0)
         => lastCall.err = "nobucket"
    /\ (Classified /\ lastCall.err # "split" /\ DOMAIN LastNames = {})
         => lastCall.err = "noendpoint"

C18_Witness ==
    /\ lastCall.err = "nobucket"
    /\ lastCall.name = "bkt"
    /\ clientEndpoints # EmptyMap
    /\ ~lastCall.cacheChanged

\* C19: after a GetEndpointForBucket(b) call that missed the cache and
\* succeeded, the cache maps b to the URL returned, and every key of the
\* cache is the name of a bucket that has been resolved.
C19_CacheKeyedByBucket ==
    /\ (lastCall.err = Nil /\ lastCall.lists = 1)
         => /\ lastCall.name \in DOMAIN clientEndpoints
            /\ clientEndpoints[lastCall.name] = lastCall.url
    /\ DOMAIN clientEndpoints \subseteq DOMAIN resolved

\* C25: after a GetEndpointForBucket call that failed because
\* GetCOSEndpoints returned an error, the package variable Endpoints is
\* still nil; and a call made when Endpoints is set fetches nothing and
\* leaves it as it is.
C25_FailedFetchNotCached ==
    /\ [](lastCall.err = "GetCOSEndpoint" => ~Endpoints.set)
    /\ [][Endpoints.set => (lastCall'.fetches = 0 /\ Endpoints' = Endpoints)]_vars

(***************************************************************************)
(* Properties of the bulk deletion                                         *)
(***************************************************************************)
TaskIds == 1 .. Len(tasks)
\* the listing is not empty and every round of the loop of line 540 has run
AllSubmitted == delPc \in {"wait", "done"} /\ KeysLen(list) > 0
\* DeleteBucketContents has returned what the goroutines left in resErr
ReturnedAfterBatches == delPc = "done" /\ KeysLen(list) > 0
BatchLen(i) == KeysLen(tasks[i].objects)
\* goroutine i has started and its deferred call has not run yet
Running(i) == tasks[i].pc # "done"

\* C6: a listing of n > 0 keys is submitted as ceil(n/1000) batches, each
\* a non-empty run of at most 1000 keys of the listing, all but the last of
\* exactly 1000 keys, which put together in submission order are the listing.
C6_Partition ==
    AllSubmitted =>
      /\ Len(tasks) = (KeysLen(list) + 999) \div 1000
      /\ \A i \in TaskIds : BatchLen(i) >= 1 /\ BatchLen(i) <= 1000
      /\ \A i \in TaskIds : i < Len(tasks) => BatchLen(i) = 1000
      /\ tasks[1].objects.lo = list.lo
      /\ \A i \in TaskIds : i < Len(tasks) =>
                              tasks[i + 1].objects.lo = tasks[i].objects.hi + 1
      /\ tasks[Len(tasks)].objects.hi = list.hi

C6_Witness ==
    /\ delPc = "done"
    /\ KeysLen(list) = 2500
    /\ Len(tasks) = 3
    /\ BatchLen(1) = 1000 /\ BatchLen(2) = 1000 /\ BatchLen(3) = 500

\* C7: at most 10 batch-delete goroutines have started and not finished.
C7_AtMostTenInFlight ==
    Cardinality({i \in TaskIds : Running(i)}) <= 10

C7_Witness ==
    /\ delPc = "loop"
    /\ Cardinality({i \in TaskIds : Running(i)}) = 10
    /\ \E i \in TaskIds : tasks[i].pc = "store"

\* C8: DeleteBucketContents returns a non-nil error if some batch delete
\* failed, and nil only if every batch delete succeeded.
C8_FailureIsReported ==
    ReturnedAfterBatches =>
      ((\E i \in TaskIds : tasks[i].err # Nil) <=> delRet.kind # "nil")

C8_Witness ==
    /\ ReturnedAfterBatches
    /\ Len(tasks) = 3
    /\ tasks[1].err = Nil /\ tasks[2].err # Nil /\ tasks[3].err = Nil
    /\ delRet.kind = "batch"

\* C9: when several batches fail, DeleteBucketContents returns the error
\* that was stored first; a later failure does not replace it.
C9_FirstErrorIsReturned ==
    (ReturnedAfterBatches /\ firstError # NoError) => delRet = firstError

\* C10: every batch of the partition is submitted once, also after an
\* error has been stored, and every goroutine has finished when
\* DeleteBucketContents returns; no batch is submitted twice.
C10_NoCancelNoRetry ==
    ReturnedAfterBatches =>
      /\ Len(tasks) = (KeysLen(list) + 999) \div 1000
      /\ \A i \in TaskIds : tasks[i].pc = "done"
      /\ \A i, j \in TaskIds : i # j => tasks[i].objects # tasks[j].objects

C10_Witness ==
    /\ ReturnedAfterBatches
    /\ lateSubmit
    /\ tasks[1].err # Nil
    /\ tasks[Len(tasks)].err = Nil

\* C11: when ListObjects returns an empty listing, DeleteBucketContents
\* returns nil, no goroutine is started and no multi-object delete request
\* is sent.
C11_EmptyBucket ==
    (listed /\ KeysLen(list) = 0)
      => /\ delPc = "done"
         /\ delRet = NoError
         /\ tasks = <<>>
         /\ count = 0

C11_Witness ==
    /\ listed
    /\ KeysLen(list) = 0
    /\ delPc = "done"
    /\ clientEndpoints # EmptyMap

\* C12: when DeleteBucketContents returns after the loop, every goroutine
\* it started has run its deferred decrement, count is 0, no DeleteObjects
\* call is in flight, and the value returned is what resErr holds after
\* the last goroutine's store.
C12_ReturnsAfterAllTasks ==
    ReturnedAfterBatches =>
      /\ count = 0
      /\ \A i \in TaskIds : ~Running(i)
      /\ delRet = resErr

C12_Witness ==
    /\ ReturnedAfterBatches
    /\ Len(tasks) = 3
    /\ tasks[3].err # Nil
    /\ delRet = tasks[3].made
    /\ count = 0

\* C17: no goroutine of DeleteBucketContents writes the bucket cache (line
\* 460, after the lookup of line 398 has missed) in a state in which
\* another goroutine has its own GetEndpointForBucket call, and with it
\* its accesses to the cache, still before it.
C17_NoConcurrentCacheWrite ==
    [][\A i \in TaskIds :
         (/\ tasks[i].pc = "run"
          /\ tasks'[i].pc # "run"
          /\ tasks'[i].err # "endpoint"
          /\ delName \notin DOMAIN clientEndpoints)
           => \A j \in TaskIds \ {i} : tasks[j].pc # "run"]_vars

\* C22: the error DeleteBucketContents returns after a batch failure wraps
\* the error that the DeleteObjects call of the failed batch returned.
C22_WrapsBatchError ==
    (ReturnedAfterBatches /\ delRet.kind = "batch")
      => delRet.cause = tasks[delRet.batch].err

\* C23: no goroutine is started, and so no delete request is sent, before
\* ListObjects has returned the listing; when ListObjects fails, in the
\* endpoint resolution (no page was asked for) or on a page request,
\* DeleteBucketContents returns an error that wraps the error of ListObjects
\* and starts no goroutine.
C23_NoDeleteBeforeListing ==
    /\ tasks # <<>> => listed
    /\ (delPc = "done" /\ ~listed)
         => /\ tasks = <<>>
            /\ count = 0
            /\ delRet.kind = "list"
            /\ delRet.cause \in {"endpoint", "httperr", "xmlerr"}
            /\ delRet.cause = "endpoint" <=> asked = <<>>

C23_Witness ==
    /\ delPc = "done"
    /\ ~listed
    /\ Len(asked) = 2
    /\ delRet.cause = "httperr"

\* the number of batches of a listing of n keys
NumBatches(n) == (n + BatchSize - 1) \div BatchSize

\* C24: once the listing has returned, DeleteBucketContents returns, with
\* every batch started, every goroutine finished and count back at 0.
C24_Terminates ==
    listed ~> (/\ delPc = "done"
               /\ count = 0
               /\ Len(tasks) = NumBatches(KeysLen(list))
               /\ \A i \in TaskIds : tasks[i].pc = "done")

C24_Witness ==
    /\ delPc = "done"
    /\ count = 0
    /\ Len(tasks) > MaxInFlight
    /\ \E i \in TaskIds : tasks[i].err # Nil

\* the number of pages of a bucket of n keys
NumPages(n) == IF n = 0 THEN 1 ELSE (n + PageSize - 1) \div PageSize
Min(a, b) == IF a < b THEN a ELSE b

\* C26: the first request of ListObjects carries no continuation token and
\* every later one the token of the page before; every page but the last
\* carries a token and the loop ends with the first page that carries
\* none; the list is the pages' keys in page order, all keys of the
\* bucket when ListObjects returns; and when a request fails
\* DeleteBucketContents gets no list.
C26_Pagination ==
    /\ asked # <<>> => asked[1] = NoToken
    /\ \A k \in 2 .. Len(asked) : asked[k] = given[k - 1]
    /\ Len(asked) >= Len(given) /\ Len(asked) <= Len(given) + 1
    /\ \A k \in 1 .. Len(given) - 1 : given[k] # NoToken
    /\ (delPc = "pages" /\ given # <<>>) => given[Len(given)] # NoToken
    /\ res = Keys(Min(Len(given) * PageSize, KeysLen(serviceObjects)))
    /\ listed => /\ given[Len(given)] = NoToken
                 /\ Len(given) = NumPages(KeysLen(serviceObjects))
                 /\ Len(asked) = Len(given)
                 /\ list = serviceObjects
    /\ ~listed => list = NoKeys

C26_Witness ==
    /\ listed
    /\ Len(given) = 3
    /\ asked[3] = 2 * PageSize + 1
    /\ KeysLen(list) = 2 * PageSize + 500

\* C27: the DELETE request for the bucket is sent only after
\* DeleteBucketContents has returned nil, with every goroutine finished;
\* when DeleteBucketContents returns an error, DeleteBucketAll returns that
\* error and sends no DELETE request for the bucket.
C27_BucketDeletedAfterContents ==
    /\ bucketDeletes <= 1
    /\ bucketDeletes = 1
         => /\ delPc = "done"
            /\ delRet = NoError
            /\ \A i \in TaskIds : tasks[i].pc = "done"
            /\ count = 0
    /\ (allRet # NotReturned /\ delRet # NoError)
         => (allRet = delRet /\ bucketDeletes = 0)

C27_Witness ==
    /\ bucketDeletes = 1
    /\ allRet = NoError
    /\ Len(tasks) = 3

====
